---- MODULE Spec2Model ----
(***************************************************************************)
(* Model of frontend/src/App.jsx (GraphExplorer): the React state of the   *)
(* component, its three effects, the asynchronous upload and graph         *)
(* queries, and the d3 force simulation with its click and drag handlers.  *)
(*                                                                         *)
(* A state of the model is a committed render of the component.  A commit  *)
(* whose effect dependencies changed leaves the names of the effects to    *)
(* run in `effects`; RunEffects runs them before anything else can happen. *)
(***************************************************************************)
EXTENDS FiniteSets, Integers, Sequences, TLC

(* ------------------------------ bounds -------------------------------- *)
MaxInflight == 2    \* graph requests awaiting their response
MaxExpanded == 3    \* length of expandedNodes
MaxSims == 2        \* force simulations still referenced (stepping or dragged)
MaxCoord == 1       \* layout coordinates are 0..MaxCoord
MaxPointers == 2    \* pointers (mouse, touches) that can drag at once

(* --------------------------- program constants ------------------------ *)
MinDepth == 1
MaxDepth == 5
InitialDepth == 2
AlphaTargetDrag == 3    \* simulation.alphaTarget(0.3), in tenths
AlphaInitial == 10      \* a new d3 simulation starts at alpha 1, in tenths
AlphaMin == 1           \* stepping stops once alpha falls below alphaMin
Null == -1              \* d.fx = null

NoEntity == ""
Range(s) == {s[i] : i \in 1..Len(s)}

(* ----------------------- the server side, from the spec --------------- *)
Files == {"f1", "f2", "bad"}
EmptyStore == [valid |-> TRUE, entities |-> <<>>, rels |-> {}]
StoreOf(file) ==
    CASE file = "f1" -> [valid |-> TRUE, entities |-> <<"Alice", "Acme", "Bob">>,
                         rels |-> {<<"Alice", "Acme">>, <<"Acme", "Bob">>, <<"Bob", "Acme">>}]
      [] file = "f2" -> [valid |-> TRUE, entities |-> <<"Acme", "Bob">>,
                         rels |-> {<<"Acme", "Bob">>}]
      [] OTHER       -> [valid |-> FALSE, entities |-> <<>>, rels |-> {}]

Neighbors(st, e) ==
    {r[2] : r \in {q \in st.rels : q[1] = e}} \cup {r[1] : r \in {q \in st.rels : q[2] = e}}

InteractiveNodeIds(st, root, expanded) ==
    {root} \cup UNION {Neighbors(st, e) : e \in Range(expanded)}

RECURSIVE RadialNodeIds(_, _, _)
RadialNodeIds(st, root, d) ==
    IF d = 0 THEN {root}
    ELSE LET prev == RadialNodeIds(st, root, d - 1)
         IN  prev \cup UNION {Neighbors(st, e) : e \in prev}

RenderNode(st, id, root, expanded, ids, incremental) ==
    [id |-> id,
     root |-> (id = root),
     expanded |-> (incremental /\ id \in Range(expanded)),
     expandable |-> (incremental /\ Neighbors(st, id) \ ids # {})]

NullData == [kind |-> "null", nodes |-> <<>>, links |-> {}]
ErrorBody == [kind |-> "error", nodes |-> <<>>, links |-> {}]

ResultSet(st, root, expanded, ids, incremental) ==
    LET order == SelectSeq(st.entities, LAMBDA e : e \in ids)
    IN  [kind |-> "graph",
         nodes |-> [i \in 1..Len(order) |->
                      RenderNode(st, order[i], root, expanded, ids, incremental)],
         links |-> {r \in st.rels : r[1] \in ids /\ r[2] \in ids}]

InteractiveQuery(st, req) ==
    IF req.entity \notin Range(st.entities) THEN ErrorBody
    ELSE ResultSet(st, req.entity, req.expanded_nodes,
                   InteractiveNodeIds(st, req.entity, req.expanded_nodes), TRUE)

RadialQuery(st, req) ==
    IF req.entity \notin Range(st.entities) \/ req.depth \notin MinDepth..MaxDepth
    THEN ErrorBody
    ELSE ResultSet(st, req.entity, <<>>, RadialNodeIds(st, req.entity, req.depth), FALSE)

Answer(st, req) ==
    IF req.kind = "interactive" THEN InteractiveQuery(st, req) ELSE RadialQuery(st, req)

(* ------------------------------- state -------------------------------- *)
VARIABLES
    store,           \* the server's Entity/Relationship Store
    entities,        \* useState([]): [defined, list]
    selectedEntity,  \* useState('')
    expandedNodes,   \* useState([])
    graphData,       \* useState(null)
    stats,           \* useState(null): has a stats object been set
    mode,            \* useState('interactive')
    depth,           \* useState(2)
    uploading,       \* useState(false)
    uploadPc,        \* uploadFile: [at: "idle", "upload" or "stats"; file]
    inflight,        \* graph requests sent by loadGraph, in the order sent
    effects,         \* effects the last commit has still to run
    alertMsg,        \* the alert() raised by the last step, "" if none
    crashed,         \* an error thrown while rendering unmounted the component
    sims,            \* the force simulations still referenced; the last is current
    displayed,       \* the svg holds the nodes of the current simulation
    renderMode,      \* `mode` as captured by the handlers of the displayed nodes
    drags            \* per pointer: the drag gesture in progress

uiVars == <<entities, selectedEntity, expandedNodes, graphData, stats, mode, depth, uploading>>
netVars == <<store, uploadPc, inflight>>
layoutVars == <<sims, displayed, renderMode, drags>>
vars == <<uiVars, netVars, layoutVars, effects, alertMsg, crashed>>

Undefined == [defined |-> FALSE, list |-> <<>>]
EntityList(l) == [defined |-> TRUE, list |-> l]

Coord == 0..MaxCoord
Pointers == 1..MaxPointers
NoDrag == [sim |-> 0, node |-> 0]

TypeOK ==
    /\ selectedEntity \in {NoEntity, "Alice", "Acme", "Bob"}
    /\ mode \in {"interactive", "radial"}
    /\ depth \in Int
    /\ uploading \in BOOLEAN
    /\ uploadPc.at \in {"idle", "upload", "stats"}
    /\ effects \subseteq {"sel", "load", "render"}
    /\ crashed \in BOOLEAN
    /\ displayed \in BOOLEAN
    /\ Len(inflight) <= MaxInflight
    /\ Len(expandedNodes) <= MaxExpanded
    /\ Len(sims) <= MaxSims

Init ==
    /\ store = EmptyStore
    /\ entities = EntityList(<<>>)
    /\ selectedEntity = NoEntity
    /\ expandedNodes = <<>>
    /\ graphData = NullData
    /\ stats = FALSE
    /\ mode = "interactive"
    /\ depth = InitialDepth
    /\ uploading = FALSE
    /\ uploadPc = [at |-> "idle", file |-> ""]
    /\ inflight = <<>>
    /\ effects = {}
    /\ alertMsg = ""
    /\ crashed = FALSE
    /\ sims = <<>>
    /\ displayed = FALSE
    /\ renderMode = "interactive"
    /\ drags = [p \in Pointers |-> NoDrag]

(* ------------------------- what the render shows ---------------------- *)
\* lines 397, 448-458: the svg exists in a render with entities, a root and data
SvgMounted(ents, sel, gd) ==
    ents.defined /\ Len(ents.list) > 0 /\ sel # NoEntity /\ gd.kind # "null"

\* the user can act on a mounted component whose effects have run
Idle == ~crashed /\ effects = {}

(* ----------------------------- the layout ----------------------------- *)
\* d3 seeds a node without x, y from its index alone
InitX(i) == i % (MaxCoord + 1)
InitY(i) == (i \div (MaxCoord + 1)) % (MaxCoord + 1)

LayoutNode(n, i) ==
    [id |-> n.id, expandable |-> n.expandable,
     x |-> InitX(i - 1), y |-> InitY(i - 1), fx |-> Null, fy |-> Null]

\* d3.forceSimulation(graphData.nodes): the response's node objects are new
ForceSimulation(nodes) ==
    [nodes |-> [i \in 1..Len(nodes) |-> LayoutNode(nodes[i], i)],
     alpha |-> AlphaInitial, alphaTarget |-> 0, running |-> TRUE]

Clamp(v) == IF v < 0 THEN 0 ELSE IF v > MaxCoord THEN MaxCoord ELSE v

ActiveOn(dr, k) == {p \in Pointers : dr[p].sim = k}

\* the nodes of a replaced result set are no longer drawn, and nothing but their
\* own simulation and drag gestures reads them: the model keeps their number
Detached == [id |-> "", expandable |-> FALSE, x |-> 0, y |-> 0, fx |-> Null, fy |-> Null]
Detach(s) == [s EXCEPT !.nodes = [i \in 1..Len(s.nodes) |-> Detached]]

\* a replaced simulation that has stopped and is not being dragged is garbage
Dead(ss, dr, k) == k < Len(ss) /\ ~ss[k].running /\ ActiveOn(dr, k) = {}
NewIndex(ss, dr, k) == Cardinality({j \in 1..k : ~Dead(ss, dr, j)})
Collect(ss, dr) ==
    LET live == {k \in 1..Len(ss) : ~Dead(ss, dr, k)}
        at(n) == CHOOSE k \in live : NewIndex(ss, dr, k) = n
    IN  [sims |-> [n \in 1..Cardinality(live) |->
                     IF at(n) < Len(ss) THEN Detach(ss[at(n)]) ELSE ss[at(n)]],
         drags |-> [p \in Pointers |->
                      IF dr[p].sim = 0 THEN NoDrag
                      ELSE [sim |-> NewIndex(ss, dr, dr[p].sim), node |-> dr[p].node]]]

SetLayout(ss, dr) ==
    /\ sims' = Collect(ss, dr).sims
    /\ drags' = Collect(ss, dr).drags

(* ------------------------------ uploadFile ---------------------------- *)
\* lines 20-24, 299-305: the file input is disabled while uploading
UploadFile(f) ==
    /\ Idle /\ ~uploading
    /\ uploading' = TRUE
    /\ uploadPc' = [at |-> "upload", file |-> f]
    /\ alertMsg' = ""
    /\ UNCHANGED <<store, entities, selectedEntity, expandedNodes, graphData, stats, mode,
                   depth, inflight, effects, crashed, layoutVars>>

\* lines 26-31: the answer to POST /upload; an error body has no `entities`,
\* and the next render reads entities.length (line 331)
UploadedEntities(st) == IF st.valid THEN EntityList(st.entities) ELSE Undefined

UploadResponse(outcome) ==
    /\ Idle /\ uploadPc.at = "upload"
    /\ alertMsg' = IF outcome = "network" THEN "Error uploading file" ELSE ""
    /\ IF outcome = "network"
       THEN /\ uploading' = FALSE
            /\ uploadPc' = [at |-> "idle", file |-> ""]
            /\ UNCHANGED <<store, entities, crashed, displayed>>
       ELSE LET st == StoreOf(uploadPc.file)
            IN  /\ store' = IF st.valid THEN st ELSE store
                /\ entities' = UploadedEntities(st)
                /\ crashed' = ~entities'.defined
                /\ displayed' = (displayed /\ SvgMounted(entities', selectedEntity, graphData))
                /\ uploadPc' = [uploadPc EXCEPT !.at = "stats"]
                /\ UNCHANGED uploading
    /\ UNCHANGED <<selectedEntity, expandedNodes, graphData, stats, mode, depth, inflight,
                   effects, sims, renderMode, drags>>

\* lines 33-40: the answer to GET /stats, then the finally block
StatsResponse(outcome) ==
    /\ Idle /\ uploadPc.at = "stats"
    /\ alertMsg' = IF outcome = "network" THEN "Error uploading file" ELSE ""
    /\ stats' = IF outcome = "network" THEN stats ELSE TRUE
    /\ uploading' = FALSE
    /\ uploadPc' = [at |-> "idle", file |-> ""]
    /\ UNCHANGED <<store, entities, selectedEntity, expandedNodes, graphData, mode, depth,
                   inflight, effects, crashed, layoutVars>>

(* ------------------------------ controls ------------------------------ *)
\* lines 414-423: the select lists '' and the entities
SelectEntity(e) ==
    /\ Idle /\ entities.defined /\ Len(entities.list) > 0
    /\ e \in {NoEntity} \cup Range(entities.list)
    /\ e # selectedEntity
    /\ Len(inflight) + 2 <= MaxInflight
    /\ selectedEntity' = e
    /\ effects' = {"sel", "load"}
    /\ displayed' = (displayed /\ SvgMounted(entities, e, graphData))
    /\ alertMsg' = ""
    /\ UNCHANGED <<store, entities, expandedNodes, graphData, stats, mode, depth, uploading,
                   uploadPc, inflight, crashed, sims, renderMode, drags>>

\* lines 331-355: the mode radios, shown once there are entities
SetMode(m) ==
    /\ Idle /\ entities.defined /\ Len(entities.list) > 0
    /\ m \in {"interactive", "radial"} /\ m # mode
    /\ Len(inflight) < MaxInflight
    /\ mode' = m
    /\ effects' = {"load"}
    /\ alertMsg' = ""
    /\ UNCHANGED <<store, entities, selectedEntity, expandedNodes, graphData, stats, depth,
                   uploading, uploadPc, inflight, crashed, layoutVars>>

\* lines 357-369: the depth slider, shown in radial mode
SetDepth(d) ==
    /\ Idle /\ entities.defined /\ Len(entities.list) > 0 /\ mode = "radial"
    /\ d \in MinDepth..MaxDepth /\ d # depth
    /\ Len(inflight) < MaxInflight
    /\ depth' = d
    /\ effects' = {"load"}
    /\ alertMsg' = ""
    /\ UNCHANGED <<store, entities, selectedEntity, expandedNodes, graphData, stats, mode,
                   uploading, uploadPc, inflight, crashed, layoutVars>>

ResetKeepsExpanded(prev, sel) == IF sel # NoEntity THEN <<sel>> \o prev ELSE prev

\* lines 273-277
ResetExpanded(prev, sel) == IF sel # NoEntity THEN <<sel>> ELSE prev

\* lines 425-433: the Reset button is shown in interactive mode with a root
HandleReset ==
    /\ Idle /\ entities.defined /\ Len(entities.list) > 0
    /\ mode = "interactive" /\ selectedEntity # NoEntity
    /\ Len(inflight) < MaxInflight
    /\ expandedNodes' = ResetExpanded(expandedNodes, selectedEntity)
    /\ effects' = {"load"}
    /\ alertMsg' = ""
    /\ UNCHANGED <<store, entities, selectedEntity, graphData, stats, mode, depth, uploading,
                   uploadPc, inflight, crashed, layoutVars>>

\* lines 206-211: the click handler of a displayed node d; `m` is the mode of
\* the render whose effect installed the handler
ExpandOnClickReplaces(prev, d, m) ==
    IF d.expandable /\ m = "interactive" THEN <<d.id>> ELSE prev

ExpandOnClick(prev, d, m) ==
    IF d.expandable /\ m = "interactive" THEN Append(prev, d.id) ELSE prev

Click(i) ==
    /\ Idle /\ displayed
    /\ i \in 1..Len(sims[Len(sims)].nodes)
    /\ LET d == sims[Len(sims)].nodes[i]
           next == ExpandOnClick(expandedNodes, d, renderMode)
       IN  /\ next # expandedNodes => Len(next) <= MaxExpanded /\ Len(inflight) < MaxInflight
           /\ expandedNodes' = next
           /\ effects' = IF next # expandedNodes THEN {"load"} ELSE {}
    /\ alertMsg' = ""
    /\ UNCHANGED <<store, entities, selectedEntity, graphData, stats, mode, depth, uploading,
                   uploadPc, inflight, crashed, layoutVars>>

(* ------------------------------ loadGraph ----------------------------- *)
\* lines 46-63: the request built from the state of the render that ran the effect
LoadRequest(sel, expanded, m, d) ==
    IF m = "interactive"
    THEN [kind |-> "interactive", entity |-> sel, expanded_nodes |-> expanded, depth |-> 0]
    ELSE [kind |-> "radial", entity |-> sel, expanded_nodes |-> <<>>, depth |-> d]

\* lines 71-75
SelectedEffect(prev, sel) == IF sel # NoEntity THEN <<sel>> ELSE prev

LoadEffectWithoutRoot(reqs, sel, expanded, m, d) ==
    Append(reqs, LoadRequest(sel, expanded, m, d))

\* lines 43-44, 77-79
LoadEffect(reqs, sel, expanded, m, d) ==
    IF sel # NoEntity THEN Append(reqs, LoadRequest(sel, expanded, m, d)) ELSE reqs

Remove(seq, i) == [j \in 1..(Len(seq) - 1) |-> IF j < i THEN seq[j] ELSE seq[j + 1]]

\* simulations that stay referenced once the current one is replaced
Live == {k \in 1..Len(sims) : sims[k].running \/ ActiveOn(drags, k) # {}}

\* lines 64-68: a response, or the failure of the fetch
DeliverGraph(i, outcome) ==
    /\ Idle
    /\ i \in 1..Len(inflight)
    /\ inflight' = Remove(inflight, i)
    /\ IF outcome = "network"
       THEN /\ alertMsg' = "Error loading graph"
            /\ UNCHANGED <<graphData, effects, displayed>>
       ELSE /\ Cardinality(Live) < MaxSims
            /\ alertMsg' = ""
            /\ graphData' = Answer(store, inflight[i])
            /\ effects' = {"render"}
            /\ displayed' = (displayed /\ SvgMounted(entities, selectedEntity, graphData'))
    /\ UNCHANGED <<store, entities, selectedEntity, expandedNodes, stats, mode, depth,
                   uploading, uploadPc, crashed, sims, renderMode, drags>>

(* ------------------------------ the effects --------------------------- *)
\* lines 71-79 and 81-271, run for the commit that changed their dependencies
RunEffects ==
    /\ ~crashed /\ effects # {}
    /\ alertMsg' = ""
    /\ expandedNodes' = IF "sel" \in effects
                        THEN SelectedEffect(expandedNodes, selectedEntity)
                        ELSE expandedNodes
    /\ inflight' = IF "load" \in effects
                   THEN LoadEffect(inflight, selectedEntity, expandedNodes, mode, depth)
                   ELSE inflight
    /\ effects' = IF "sel" \in effects /\ selectedEntity # NoEntity THEN {"load"} ELSE {}
    /\ IF "render" \in effects /\ SvgMounted(entities, selectedEntity, graphData)
       THEN /\ SetLayout(Append(sims, ForceSimulation(graphData.nodes)), drags)
            /\ crashed' = (graphData.kind = "error")
            /\ displayed' = (graphData.kind = "graph")
            /\ renderMode' = mode
       ELSE UNCHANGED <<crashed, layoutVars>>
    /\ UNCHANGED <<store, entities, selectedEntity, graphData, stats, mode, depth, uploading,
                   uploadPc>>

(* ---------------------------- the simulation -------------------------- *)
\* alpha += (alphaTarget - alpha) * alphaDecay, with the decay abstracted to a
\* single step: after a step alpha has reached its target
StepAlpha(s) == s.alpha + (s.alphaTarget - s.alpha)

StepNodeIgnoresPin(n, dx, dy) ==
    [n EXCEPT !.x = Clamp(n.x + dx), !.y = Clamp(n.y + dy)]

\* a pinned coordinate is set to its pin, a free one moves with the forces
StepNode(n, dx, dy) ==
    [n EXCEPT !.x = IF n.fx = Null THEN Clamp(n.x + dx) ELSE n.fx,
              !.y = IF n.fy = Null THEN Clamp(n.y + dy) ELSE n.fy]

\* one timer step of simulation k; (dx, dy) stands for the forces of the step
Step(s, dx, dy) ==
    [s EXCEPT !.alpha = StepAlpha(s),
              !.nodes = [i \in 1..Len(s.nodes) |-> StepNode(s.nodes[i], dx, dy)],
              !.running = (StepAlpha(s) >= AlphaMin)]

Tick(k, dx, dy) ==
    /\ effects = {}
    /\ k \in 1..Len(sims) /\ sims[k].running
    /\ SetLayout([sims EXCEPT ![k] = Step(sims[k], dx, dy)], drags)
    /\ alertMsg' = ""
    /\ UNCHANGED <<uiVars, netVars, effects, crashed, displayed, renderMode>>

(* ------------------------------- dragging ----------------------------- *)
\* lines 254-258; `active` is event.active, the other gestures of this drag behaviour
Dragstarted(s, i, active) ==
    [s EXCEPT !.alphaTarget = IF active = 0 THEN AlphaTargetDrag ELSE @,
              !.running = IF active = 0 THEN TRUE ELSE @,
              !.nodes[i].fx = s.nodes[i].x,
              !.nodes[i].fy = s.nodes[i].y]

\* lines 260-263
Dragged(s, i, px, py) == [s EXCEPT !.nodes[i].fx = px, !.nodes[i].fy = py]

DragendedKeepsPin(s, i, active) ==
    [s EXCEPT !.alphaTarget = IF active = 0 THEN 0 ELSE @]

DragendedAlwaysCools(s, i, active) ==
    [s EXCEPT !.alphaTarget = 0, !.nodes[i].fx = Null, !.nodes[i].fy = Null]

DragendedKeepsTarget(s, i, active) ==
    [s EXCEPT !.nodes[i].fx = Null, !.nodes[i].fy = Null]

\* lines 265-269
Dragended(s, i, active) ==
    [s EXCEPT !.alphaTarget = IF active = 0 THEN 0 ELSE @,
              !.nodes[i].fx = Null,
              !.nodes[i].fy = Null]

HandlerSimulationRef(p) == Len(sims)

\* lines 122, 254-269: the handlers of a gesture use the `simulation` of the
\* effect run that registered them, not simulationRef.current
HandlerSimulation(p) == drags[p].sim

\* lines 155-158; pointers are numbered in the order they go down
DragStart(p, i) ==
    /\ Idle /\ displayed
    /\ drags[p] = NoDrag
    /\ \A q \in Pointers : q < p => drags[q] # NoDrag
    /\ i \in 1..Len(sims[Len(sims)].nodes)
    /\ LET k == Len(sims)
       IN  SetLayout([sims EXCEPT ![k] = Dragstarted(sims[k], i, Cardinality(ActiveOn(drags, k)))],
                     [drags EXCEPT ![p] = [sim |-> k, node |-> i]])
    /\ alertMsg' = ""
    /\ UNCHANGED <<uiVars, netVars, effects, crashed, displayed, renderMode>>

DragMove(p, px, py) ==
    /\ effects = {}
    /\ drags[p] # NoDrag
    /\ LET k == HandlerSimulation(p)
       IN  SetLayout([sims EXCEPT ![k] = Dragged(sims[k], drags[p].node, px, py)], drags)
    /\ alertMsg' = ""
    /\ UNCHANGED <<uiVars, netVars, effects, crashed, displayed, renderMode>>

DragEnd(p) ==
    /\ effects = {}
    /\ drags[p] # NoDrag
    /\ LET k == HandlerSimulation(p)
           rest == [drags EXCEPT ![p] = NoDrag]
       IN  SetLayout([sims EXCEPT ![k] = Dragended(sims[k], drags[p].node,
                                                   Cardinality(ActiveOn(rest, k)))],
                     rest)
    /\ alertMsg' = ""
    /\ UNCHANGED <<uiVars, netVars, effects, crashed, displayed, renderMode>>

(* --------------------------- the specification ------------------------ *)
Outcomes == {"ok", "network"}
Forces == {-1, 1}
Roots == {NoEntity, "Alice", "Acme", "Bob"}
Modes == {"interactive", "radial"}
NodeIndex == 1..3

Next ==
    \/ \E f \in Files : UploadFile(f)
    \/ \E o \in Outcomes : UploadResponse(o)
    \/ \E o \in Outcomes : StatsResponse(o)
    \/ \E e \in Roots : SelectEntity(e)
    \/ \E m \in Modes : SetMode(m)
    \/ \E d \in MinDepth..MaxDepth : SetDepth(d)
    \/ HandleReset
    \/ \E i \in NodeIndex : Click(i)
    \/ \E i \in 1..MaxInflight, o \in Outcomes : DeliverGraph(i, o)
    \/ RunEffects
    \/ \E k \in 1..MaxSims, dx \in Forces, dy \in Forces : Tick(k, dx, dy)
    \/ \E p \in Pointers, i \in NodeIndex : DragStart(p, i)
    \/ \E p \in Pointers, px \in Coord, py \in Coord : DragMove(p, px, py)
    \/ \E p \in Pointers : DragEnd(p)

Spec == Init /\ [][Next]_vars

(***************************************************************************)
(* Scenarios: the same actions from a state the program reaches, with the  *)
(* inputs of each kept to those the scenario is about.                      *)
(***************************************************************************)
\* "f1" has been uploaded, no root chosen yet
InitLoaded ==
    /\ store = StoreOf("f1")
    /\ entities = EntityList(StoreOf("f1").entities)
    /\ selectedEntity = NoEntity
    /\ expandedNodes = <<>>
    /\ graphData = NullData
    /\ stats = TRUE
    /\ mode = "interactive"
    /\ depth = InitialDepth
    /\ uploading = FALSE
    /\ uploadPc = [at |-> "idle", file |-> ""]
    /\ inflight = <<>>
    /\ effects = {}
    /\ alertMsg = ""
    /\ crashed = FALSE
    /\ sims = <<>>
    /\ displayed = FALSE
    /\ renderMode = "interactive"
    /\ drags = [p \in Pointers |-> NoDrag]

\* "f1" uploaded, Alice chosen, her first result set drawn
InitShown ==
    /\ store = StoreOf("f1")
    /\ entities = EntityList(StoreOf("f1").entities)
    /\ selectedEntity = "Alice"
    /\ expandedNodes = <<"Alice">>
    /\ graphData = Answer(store, LoadRequest("Alice", <<"Alice">>, "interactive", InitialDepth))
    /\ stats = TRUE
    /\ mode = "interactive"
    /\ depth = InitialDepth
    /\ uploading = FALSE
    /\ uploadPc = [at |-> "idle", file |-> ""]
    /\ inflight = <<>>
    /\ effects = {}
    /\ alertMsg = ""
    /\ crashed = FALSE
    /\ sims = <<ForceSimulation(graphData.nodes)>>
    /\ displayed = TRUE
    /\ renderMode = "interactive"
    /\ drags = [p \in Pointers |-> NoDrag]

\* exploring: roots, modes, clicks, resets and the answers to the queries
NextExplore ==
    \/ \E e \in {NoEntity, "Alice", "Acme"} : SelectEntity(e)
    \/ \E m \in Modes : SetMode(m)
    \/ HandleReset
    \/ \E i \in NodeIndex : Click(i)
    \/ \E i \in 1..MaxInflight, o \in Outcomes : DeliverGraph(i, o)
    \/ RunEffects
    \/ \E k \in 1..MaxSims : Tick(k, 1, 1)

SpecExplore == InitLoaded /\ [][NextExplore]_vars

\* laying out: the simulation, drags, and re-queries that replace the result set
NextLayout ==
    \/ HandleReset
    \/ \E i \in 1..MaxInflight : DeliverGraph(i, "ok")
    \/ RunEffects
    \/ \E k \in 1..MaxSims, dx \in Forces, dy \in Forces : Tick(k, dx, dy)
    \/ \E p \in Pointers, i \in NodeIndex : DragStart(p, i)
    \/ \E p \in Pointers, px \in Coord, py \in Coord : DragMove(p, px, py)
    \/ \E p \in Pointers : DragEnd(p)

SpecLayout == InitShown /\ [][NextLayout]_vars

\* the timer of a running simulation keeps firing, and React runs the effects
\* of a commit
TimerStep == \E k \in 1..MaxSims, dx \in Forces, dy \in Forces : Tick(k, dx, dy)

\* cooling down: drags on either result set, re-queries, and the timer
NextConverge ==
    \/ HandleReset
    \/ \E i \in 1..MaxInflight : DeliverGraph(i, "ok")
    \/ RunEffects
    \/ \E k \in 1..MaxSims : Tick(k, -1, 1)
    \/ \E p \in Pointers, i \in NodeIndex : DragStart(p, i)
    \/ \E p \in Pointers : DragMove(p, 1, 0)
    \/ \E p \in Pointers : DragEnd(p)

SpecConverge ==
    InitShown /\ [][NextConverge]_vars /\ WF_vars(TimerStep) /\ WF_vars(RunEffects)

\* one session with Alice as root: every kind of step after the root is chosen
NextSession ==
    \/ \E m \in Modes : SetMode(m)
    \/ SetDepth(MinDepth)
    \/ HandleReset
    \/ \E i \in NodeIndex : Click(i)
    \/ \E i \in 1..MaxInflight, o \in Outcomes : DeliverGraph(i, o)
    \/ RunEffects
    \/ \E k \in 1..MaxSims : Tick(k, 1, 1)
    \/ DragStart(1, 1)
    \/ DragMove(1, 0, 0)
    \/ DragEnd(1)

SpecSession == InitShown /\ [][NextSession]_vars

\* querying: every query trigger of a session, every response arriving, in any order
NextQueries ==
    \/ \E m \in Modes : SetMode(m)
    \/ HandleReset
    \/ \E i \in NodeIndex : Click(i)
    \/ \E i \in 1..MaxInflight : DeliverGraph(i, "ok")
    \/ RunEffects
    \/ \E k \in 1..MaxSims : Tick(k, 1, 1)

SpecQueries == InitShown /\ [][NextQueries]_vars

\* changing the root of a session that shows a graph
NextReroot ==
    \/ \E e \in {"Alice", "Acme"} : SelectEntity(e)
    \/ \E i \in NodeIndex : Click(i)
    \/ \E i \in 1..MaxInflight : DeliverGraph(i, "ok")
    \/ RunEffects
    \/ \E k \in 1..MaxSims : Tick(k, 1, 1)

SpecReroot == InitShown /\ [][NextReroot]_vars

\* radial exploring: the root chosen and cleared, the mode, every depth of the slider
NextDepth ==
    \/ \E e \in {NoEntity, "Alice"} : SelectEntity(e)
    \/ \E m \in Modes : SetMode(m)
    \/ \E d \in MinDepth..MaxDepth : SetDepth(d)
    \/ \E i \in 1..MaxInflight : DeliverGraph(i, "ok")
    \/ RunEffects
    \/ \E k \in 1..MaxSims : Tick(k, 1, 1)

SpecDepth == InitLoaded /\ [][NextDepth]_vars

\* uploading: files, one root, resets and the answers of the server
NextUpload ==
    \/ \E f \in Files : UploadFile(f)
    \/ \E o \in Outcomes : UploadResponse(o)
    \/ \E o \in Outcomes : StatsResponse(o)
    \/ \E e \in {NoEntity, "Alice"} : SelectEntity(e)
    \/ HandleReset
    \/ \E i \in 1..MaxInflight, o \in Outcomes : DeliverGraph(i, o)
    \/ RunEffects
    \/ \E k \in 1..MaxSims : Tick(k, 1, 1)

SpecUpload == Init /\ [][NextUpload]_vars

(* ------------------------------- claims ------------------------------- *)
Current == sims[Len(sims)]

\* C1: expandedNodes never holds an identifier twice.
NoDuplicateExpanded == Cardinality(Range(expandedNodes)) = Len(expandedNodes)

\* C2: a click on a node that is not expandable, or a click while the selected
\* mode is radial, changes nothing: expandedNodes stays and no query is triggered.
ClickIsNoOpInRadialOrOnLeaf ==
    [][\A i \in NodeIndex :
          (Click(i) /\ (mode = "radial" \/ ~Current.nodes[i].expandable))
              => (expandedNodes' = expandedNodes /\ effects' = {})]_vars

\* C3: whenever a root is selected it is a member of expandedNodes.
RootIsExpanded == selectedEntity # NoEntity => selectedEntity \in Range(expandedNodes)

\* C4: no step other than a Reset or the choice of a root (whose effect sets
\* expandedNodes to the root alone) removes an identifier from expandedNodes.
ExpansionOnlyGrows ==
    [][(~HandleReset /\ ~(RunEffects /\ "sel" \in effects))
          => Range(expandedNodes) \subseteq Range(expandedNodes')]_vars

\* an expansion made by a click is kept through a mode switch and a drag
KeptExpansion ==
    /\ expandedNodes = <<"Alice", "Acme">>
    /\ mode = "radial"
    /\ drags[1] # NoDrag
    /\ alertMsg = "Error loading graph"

\* C5: Reset sets expandedNodes to the root alone, and the query it triggers is
\* the interactive request {entity: root, expanded_nodes: [root]}.
InitialQuery(root) ==
    [kind |-> "interactive", entity |-> root, expanded_nodes |-> <<root>>, depth |-> 0]

ResetLaw ==
    [][/\ HandleReset => (expandedNodes' = <<selectedEntity>> /\ effects' = {"load"}
                          /\ mode' = "interactive" /\ selectedEntity' = selectedEntity)
       /\ (RunEffects /\ effects = {"load"} /\ mode = "interactive"
             /\ expandedNodes = <<selectedEntity>>)
            => (Len(inflight') = Len(inflight) + 1
                /\ inflight'[Len(inflight')] = InitialQuery(selectedEntity))]_vars

\* the request of a Reset made while an expanded graph (Acme expanded) is shown
ResetAfterExpansion ==
    /\ expandedNodes = <<"Alice">>
    /\ graphData.kind = "graph"
    /\ \E i \in 1..Len(graphData.nodes) :
         graphData.nodes[i].id = "Acme" /\ graphData.nodes[i].expanded
    /\ inflight # <<>>
    /\ inflight[Len(inflight)] = InitialQuery("Alice")

\* C6: a graph query that fails (the fetch fails, or the server answers with an
\* error instead of a result set) raises an alert and leaves expandedNodes and
\* graphData as they were.
FailedQueryLeavesGraph ==
    [][\A i \in 1..MaxInflight, o \in Outcomes :
          (DeliverGraph(i, o) /\ (o = "network" \/ Answer(store, inflight[i]).kind = "error"))
              => (alertMsg' # "" /\ graphData' = graphData /\ expandedNodes' = expandedNodes)]_vars

\* C7: an upload that fails (the fetch fails, or the server rejects the file
\* with an error body) raises an alert and leaves the entity list, the root,
\* expandedNodes and graphData as they were.
FailedUploadLeavesState ==
    [][\A o \in Outcomes :
          (UploadResponse(o) /\ (o = "network" \/ ~StoreOf(uploadPc.file).valid))
              => (alertMsg' # "" /\ entities' = entities
                  /\ UNCHANGED <<selectedEntity, expandedNodes, graphData>>)]_vars

\* C8: when the effect draws a new result set over a displayed one, a node whose
\* identifier is in both keeps the position it had.
PositionsCarriedOver ==
    [][(RunEffects /\ "render" \in effects /\ displayed /\ displayed')
          => \A i \in 1..Len(Current.nodes), j \in 1..Len(Current'.nodes) :
                Current.nodes[i].id = Current'.nodes[j].id
                    => /\ Current'.nodes[j].x = Current.nodes[i].x
                       /\ Current'.nodes[j].y = Current.nodes[i].y]_vars

Pinned(n) == n.fx # Null \/ n.fy # Null
DraggedBy(i) == {p \in Pointers : drags[p] = [sim |-> Len(sims), node |-> i]}
NoDragInProgress == \A p \in Pointers : drags[p] = NoDrag

\* C9: a node of the current result set is pinned exactly while it is being
\* dragged, so with no drag in progress no node is pinned.
PinnedExactlyWhileDragged ==
    sims # <<>> =>
        /\ \A i \in 1..Len(Current.nodes) : Pinned(Current.nodes[i]) <=> DraggedBy(i) # {}
        /\ NoDragInProgress => \A i \in 1..Len(Current.nodes) : ~Pinned(Current.nodes[i])

\* the half of the drag protocol that dragended (lines 265-269) does keep: a
\* pinned node is being dragged, and fx and fy are set and cleared together
PinnedOnlyWhileDragged ==
    sims # <<>> =>
        \A i \in 1..Len(Current.nodes) :
            /\ Pinned(Current.nodes[i]) => DraggedBy(i) # {}
            /\ Current.nodes[i].fx = Null <=> Current.nodes[i].fy = Null

\* C10: the end of one drag leaves the pin of every other node as it was, and a
\* simulation's alpha target is raised exactly while one of its nodes is dragged.
AlphaTargetFollowsDrags ==
    \A k \in 1..Len(sims) :
        sims[k].alphaTarget = IF ActiveOn(drags, k) # {} THEN AlphaTargetDrag ELSE 0

DragsAreIndependent ==
    [][/\ AlphaTargetFollowsDrags'
       /\ \A p \in Pointers :
            (DragEnd(p) /\ drags[p].sim = Len(sims))
                => \A j \in 1..Len(Current.nodes) :
                      j # drags[p].node
                          => /\ Current'.nodes[j].fx = Current.nodes[j].fx
                             /\ Current'.nodes[j].fy = Current.nodes[j].fy]_vars

\* the first pointer's drag has ended while the second still pins the other node
OneOfTwoDragsEnded ==
    /\ drags[1] = NoDrag
    /\ drags[2] = [sim |-> Len(sims), node |-> 2]
    /\ Current.nodes[2].fx = 1 /\ Current.nodes[2].fy = 1
    /\ ~Pinned(Current.nodes[1])
    /\ Current.alphaTarget = AlphaTargetDrag

\* C11: a step of the current simulation leaves every pinned node on its pin,
\* whatever the forces of the step, and no step other than the drawing of a new
\* result set moves a pinned node anywhere but onto its pin.
PinnedNodesStayOnPin ==
    [][/\ \A dx \in Forces, dy \in Forces :
             Tick(Len(sims), dx, dy)
                 => \A i \in 1..Len(Current.nodes) :
                       Pinned(Current.nodes[i])
                           => /\ Current'.nodes[i].x = Current.nodes[i].fx
                              /\ Current'.nodes[i].y = Current.nodes[i].fy
                              /\ Current'.nodes[i].fx = Current.nodes[i].fx
                              /\ Current'.nodes[i].fy = Current.nodes[i].fy
       /\ (sims # <<>> /\ ~(RunEffects /\ "render" \in effects))
             => \A i \in 1..Len(Current.nodes) :
                   Pinned(Current.nodes[i])
                       => \/ /\ Current'.nodes[i].x = Current.nodes[i].x
                             /\ Current'.nodes[i].y = Current.nodes[i].y
                          \/ /\ Current'.nodes[i].x = Current.nodes[i].fx
                             /\ Current'.nodes[i].y = Current.nodes[i].fy]_vars

\* Acme is held at (1, 0) through a step whose forces moved Alice
PinnedThroughStep ==
    /\ drags[1] = [sim |-> Len(sims), node |-> 2]
    /\ Current.nodes[2].id = "Acme"
    /\ Current.nodes[2].fx = 1 /\ Current.nodes[2].fy = 0
    /\ Current.nodes[2].x = 1 /\ Current.nodes[2].y = 0
    /\ Current.nodes[1].y = 1
    /\ Current.alpha = AlphaTargetDrag

\* C12: once every drag has ended no simulation's alpha target is left raised,
\* and if from some point on nothing happens but timer steps, with no drag in
\* progress, every simulation stops stepping.
AllIdle == \A k \in 1..Len(sims) : ~sims[k].running

LayoutConverges ==
    /\ [](NoDragInProgress => \A k \in 1..Len(sims) : sims[k].alphaTarget = 0)
    /\ (<>[][TimerStep]_vars /\ <>[]NoDragInProgress) => <>[]AllIdle

\* a drag that held Alice right of Acme has ended: the alpha it raised is still
\* there, the target is back at 0 and nothing is dragged
CoolingAfterDrag ==
    /\ NoDragInProgress
    /\ sims # <<>>
    /\ Current.running /\ Current.alpha = AlphaTargetDrag /\ Current.alphaTarget = 0
    /\ Current.nodes[1].id = "Alice" /\ Current.nodes[1].x = 1
    /\ Current.nodes[2].id = "Acme" /\ Current.nodes[2].x = 0

\* C13: a move or an end of a drag on a node of a replaced result set raises no
\* error and leaves the current simulation (the positions and pins of its nodes,
\* its alpha and alpha target) and the displayed result set as they were.
StaleDrag(p) == drags[p] # NoDrag /\ drags[p].sim < Len(sims)

StaleDragIsNoOp ==
    [][\A p \in Pointers :
          (StaleDrag(p) /\ (DragEnd(p) \/ \E px \in Coord, py \in Coord : DragMove(p, px, py)))
              => /\ Current' = Current
                 /\ UNCHANGED <<graphData, displayed, crashed, expandedNodes>>
                 /\ ~crashed]_vars

\* the first pointer still drags a node of the replaced result set while the
\* second holds Acme of the current one, whose simulation has stepped
StaleDragBesideCurrent ==
    /\ StaleDrag(1)
    /\ drags[2] = [sim |-> Len(sims), node |-> 2]
    /\ Current.nodes[2].id = "Acme"
    /\ Current.nodes[2].fx = 0 /\ Current.nodes[2].fy = 1
    /\ Current.nodes[2].x = 0 /\ Current.nodes[2].y = 1
    /\ Current.alpha = AlphaTargetDrag /\ Current.alphaTarget = AlphaTargetDrag

\* C14: once no request is in flight, graphData is the answer to the request
\* built from the current root, expandedNodes, mode and depth, whatever the
\* order in which the responses arrived.
LatestQueryWins ==
    (inflight = <<>> /\ effects \subseteq {"render"} /\ selectedEntity # NoEntity)
        => graphData = Answer(store, LoadRequest(selectedEntity, expandedNodes, mode, depth))

\* C15: every interactive request carries its entity in expanded_nodes, so no
\* request pairs a newly chosen root with the expansion of the previous root.
RequestsCarryTheirRoot ==
    \A i \in 1..Len(inflight) :
        inflight[i].kind = "interactive"
            => inflight[i].entity \in Range(inflight[i].expanded_nodes)

\* C16: at most one force simulation is stepping: the simulation of a replaced
\* result set has been stopped.
Stepping == {k \in 1..Len(sims) : sims[k].running}

SingleActiveSimulation == Cardinality(Stepping) <= 1

\* C17: every request sent names a root, and expanded identifiers, of the entity
\* list of the most recent upload.
RequestsNameIngestedEntities ==
    [][(RunEffects /\ Len(inflight') > Len(inflight))
          => LET req == inflight'[Len(inflight')]
             IN  /\ req.entity \in Range(entities.list)
                 /\ Range(req.expanded_nodes) \subseteq Range(entities.list)]_vars

\* C18: the depth is always within 1..5, every radial request carries a depth
\* within 1..5, and every request of either kind names a root.
DepthBoundedAndRootNamed ==
    /\ depth \in MinDepth..MaxDepth
    /\ \A i \in 1..Len(inflight) :
          /\ inflight[i].entity # NoEntity
          /\ inflight[i].kind = "radial" => inflight[i].depth \in MinDepth..MaxDepth

\* radial requests at both ends of the slider are in flight
RadialAtBothBounds ==
    /\ Len(inflight) = 2
    /\ inflight[1] = LoadRequest("Alice", <<>>, "radial", MaxDepth)
    /\ inflight[2] = LoadRequest("Alice", <<>>, "radial", MinDepth)
    /\ depth = MinDepth

====
